---- MODULE Spec2Model ----
(***************************************************************************)
(* Model of the product backend in src/index.js: process start-up, the     *)
(* multipart upload middleware, the create route, the list route and the   *)
(* error-handling middleware, together with the two external stores the    *)
(* routes act on (the product collection and the media service).           *)
(*                                                                         *)
(* Text that the code inspects character by character (name, price) is a   *)
(* sequence of one-character strings; text that the code only compares is  *)
(* a plain string.  A request body is a record whose domain is the set of  *)
(* fields the client actually sent.                                        *)
(***************************************************************************)
EXTENDS Integers, Sequences, FiniteSets, TLC

(***************************************************************************)
(* Bounds of the model.                                                    *)
(***************************************************************************)
MaxCreates == 2     \* create requests accepted over a run

\* Connections that carry create requests, and those that carry list
\* requests.  Connections are interchangeable: a new create request is
\* served on the lowest-numbered connection that is not serving one.
CreateSlots == {1, 2}

ListSlots == {"l1"}

(***************************************************************************)
(* Pure helpers.                                                           *)
(***************************************************************************)
RECURSIVE TrimLeft(_)
TrimLeft(s) ==
  IF s # << >> /\ Head(s) = " " THEN TrimLeft(Tail(s)) ELSE s

RECURSIVE TrimRight(_)
TrimRight(s) ==
  IF s # << >> /\ s[Len(s)] = " " THEN TrimRight(SubSeq(s, 1, Len(s) - 1)) ELSE s

\* String.prototype.trim, applied by the schema's `trim: true`
Trim(s) == TrimRight(TrimLeft(s))

DigitChars == {"0", "1", "2", "3", "4", "5", "6", "7", "8", "9"}

DigitValue(c) ==
  CASE c = "0" -> 0 [] c = "1" -> 1 [] c = "2" -> 2 [] c = "3" -> 3
    [] c = "4" -> 4 [] c = "5" -> 5 [] c = "6" -> 6 [] c = "7" -> 7
    [] c = "8" -> 8 [] c = "9" -> 9

RECURSIVE DigitsValue(_)
DigitsValue(s) ==
  IF s = << >> THEN 0
  ELSE 10 * DigitsValue(SubSeq(s, 1, Len(s) - 1)) + DigitValue(s[Len(s)])

AllDigits(s) == s # << >> /\ \A i \in 1..Len(s) : s[i] \in DigitChars

\* the texts the schema's Number cast turns into a number
IsNumeric(s) ==
  \/ AllDigits(s)
  \/ s # << >> /\ Head(s) = "-" /\ AllDigits(Tail(s))

\* the Number cast of a numeric text
ToNumber(s) ==
  IF Head(s) = "-" THEN 0 - DigitsValue(Tail(s)) ELSE DigitsValue(s)

Has(body, f) == f \in DOMAIN body

(***************************************************************************)
(* Configuration of the upload middleware and of the schema.               *)
(***************************************************************************)
FileSizeLimit == 5 * 1024 * 1024

UploadFolder == "jaggery-products"

CategoryEnum == {"jaggery", "honey", "spices", "other"}

PriceMin == 0

\* upload.fileFilter: file.mimetype.startsWith('image/'); a MIME type is
\* the pair <<type, subtype>>
fileFilter(file) == file.mimetype[1] = "image"

\* multer's fileSize limit: the largest size that is still accepted
ExceedsLimit(file) == file.size > FileSizeLimit

\* cloudinary.url(public_id, options): the delivery URL, built from the
\* identifier and the requested delivery options and from nothing else
cloudinary_url(public_id, options) ==
  << "res.cloudinary.com", "image", "upload",
     <<"f", options.fetch_format>>, <<"q", options.quality>>, public_id >>

\* variant: the create route asks for the storage profile's quality
CreateUrlOptionsBest == [fetch_format |-> "auto", quality |-> "auto:best"]

CreateUrlOptions == [fetch_format |-> "auto", quality |-> "auto"]

ListUrlOptions == [fetch_format |-> "auto", quality |-> "auto"]

\* the identifier the media service assigns to the n-th stored asset
PublicId(n) == << UploadFolder, n >>

\* the storage URL of an asset stored with format 'webp'
StorageUrl(public_id) ==
  << "res.cloudinary.com", "image", "upload", public_id, "webp" >>

NoFile == [present |-> FALSE]

\* variant: the text is cast as a boolean instead of compared with "true"
IsFeaturedTruthy(body) ==
  Has(body, "isFeatured") /\ body.isFeatured \notin {"", "false", "0"}

\* coercion of the text field isFeatured by the create route
IsFeaturedCoerce(body) == Has(body, "isFeatured") /\ body.isFeatured = "true"

\* schema validation run by save(): required fields, casts, min and enum
NameValid(body) == Has(body, "name") /\ Trim(body.name) # << >>

DescriptionValid(body) == Has(body, "description") /\ body.description # ""

PriceValid(body) ==
  /\ Has(body, "price")
  /\ IsNumeric(body.price)
  /\ ToNumber(body.price) >= PriceMin

\* variant: the schema requires a category but has no enum
CategoryRequiredOnly(body) == Has(body, "category")

CategoryValid(body) == Has(body, "category") /\ body.category \in CategoryEnum

Validate(body) ==
  NameValid(body) /\ DescriptionValid(body) /\ PriceValid(body) /\ CategoryValid(body)

\* variant: the route stores req.file.path as the public identifier
NewProductPathAsId(id, body, reqfile, t) ==
  [ _id |-> id,
    name |-> Trim(body.name),
    description |-> body.description,
    price |-> ToNumber(body.price),
    category |-> body.category,
    isFeatured |-> IsFeaturedCoerce(body),
    image |-> [ public_id |-> reqfile.path,
                url |-> reqfile.path,
                cdn_url |-> cloudinary_url(reqfile.path, CreateUrlOptions) ],
    createdAt |-> t,
    updatedAt |-> t ]

\* new Product({...}) as built by the create route from a valid body
NewProduct(id, body, reqfile, t) ==
  [ _id |-> id,
    name |-> Trim(body.name),
    description |-> body.description,
    price |-> ToNumber(body.price),
    category |-> body.category,
    isFeatured |-> IsFeaturedCoerce(body),
    image |-> [ public_id |-> reqfile.filename,
                url |-> reqfile.path,
                cdn_url |-> cloudinary_url(reqfile.filename, CreateUrlOptions) ],
    createdAt |-> t,
    updatedAt |-> t ]

\* one record of the list response
Optimized(p) ==
  [ p EXCEPT !.image.cdn_url = cloudinary_url(p.image.public_id, ListUrlOptions) ]

\* Product.find().sort({createdAt: -1}): the orders the database may return
IsDescending(s) ==
  \A i \in 1..Len(s) : \A j \in 1..Len(s) : i < j => s[i].createdAt >= s[j].createdAt

OrdersOf(n) ==
  { f \in [1..n -> 1..n] : \A i \in 1..n : \A j \in 1..n : f[i] = f[j] => i = j }

Orders == [ n \in 0..MaxCreates |-> OrdersOf(n) ]

\* variant: the query sorts by createdAt ascending
IsAscending(s) ==
  \A i \in 1..Len(s) : \A j \in 1..Len(s) : i < j => s[i].createdAt <= s[j].createdAt

FindSortedAscending(coll) ==
  { s \in { [i \in 1..Len(coll) |-> coll[f[i]]] : f \in Orders[Len(coll)] } :
      IsAscending(s) }

FindSorted(coll) ==
  { s \in { [i \in 1..Len(coll) |-> coll[f[i]]] : f \in Orders[Len(coll)] } :
      IsDescending(s) }

(***************************************************************************)
(* Requests the clients may send.                                          *)
(***************************************************************************)
BaseBody ==
  [ name |-> <<" ", "a", " ">>, description |-> "d", price |-> <<"0">>,
    category |-> "jaggery", isFeatured |-> "false" ]

Fields == DOMAIN BaseBody

Alternatives(f) ==
  CASE f = "name" -> { <<" ">> }
    [] f = "description" -> { "" }
    [] f = "price" -> { <<"-", "1">>, <<"x">>, <<"1", "0">> }
    [] f = "category" -> { "other", "fruit" }
    [] f = "isFeatured" -> { "true", "True", "1", "" }

With(b, f, v) == [ x \in DOMAIN b |-> IF x = f THEN v ELSE b[x] ]

Without(b, f) == [ x \in DOMAIN b \ {f} |-> b[x] ]

\* the valid body, and every body that leaves out or changes one field of it
Bodies ==
  {BaseBody}
    \cup { Without(BaseBody, f) : f \in Fields }
    \cup UNION { { With(BaseBody, f, v) : v \in Alternatives(f) } : f \in Fields }

MimeTypes == { <<"image", "png">>, <<"text", "plain">> }

FileSizes == { 1, FileSizeLimit, FileSizeLimit + 1 }

\* the part sent in the multipart field `image`, if any
Files ==
  {NoFile} \cup [ present : {TRUE}, mimetype : MimeTypes, size : FileSizes ]

GoodFile == [ present |-> TRUE, mimetype |-> <<"image", "png">>, size |-> 1 ]

\* every body with no file and with a well-formed image; the valid body with
\* every file
Requests ==
  { [ body |-> b, file |-> f ] : b \in Bodies, f \in {NoFile, GoodFile} }
    \cup { [ body |-> BaseBody, file |-> f ] : f \in Files }

(***************************************************************************)
(* Errors and responses.                                                   *)
(***************************************************************************)
LimitFileSizeError ==
  [ multer |-> TRUE, code |-> "LIMIT_FILE_SIZE", message |-> "File too large" ]

FileFilterError ==
  [ multer |-> FALSE, code |-> "", message |-> "Only image files are allowed!" ]

UploadError ==
  [ multer |-> FALSE, code |-> "", message |-> "upload failed" ]

\* variant: the error handler has no case for the size limit
ErrorHandlerGeneric(error) == [ status |-> 500, message |-> error.message ]

\* the error-handling middleware
ErrorHandler(error) ==
  IF error.multer /\ error.code = "LIMIT_FILE_SIZE"
  THEN [ status |-> 400, message |-> "File is too large" ]
  ELSE [ status |-> 500, message |-> error.message ]

ImageRequired == [ status |-> 400, message |-> "Product image is required" ]

ServerError == [ status |-> 500, message |-> "Server Error" ]

Created(doc) == [ status |-> 201, body |-> doc ]

Listed(found) ==
  [ status |-> 200, body |-> [ i \in 1..Len(found) |-> Optimized(found[i]) ] ]

NoResp == [ status |-> 0 ]

NoDoc == [ _id |-> 0 ]

(***************************************************************************)
(* State.                                                                  *)
(***************************************************************************)
VARIABLES
  phase,        \* "connecting", "connected", "listening" or "exited"
  exitCode,     \* status of process.exit, -1 while the process runs
  dbConnected,  \* the initial mongoose.connect has succeeded
  now,          \* the clock reading of the latest save(), in milliseconds
  products,     \* the product collection, in insertion order
  assets,       \* the assets held by the media service
  nAssets,      \* assets the media service has stored so far
  nCreates,     \* create requests accepted so far
  n201,         \* create requests answered 201 so far
  creates,      \* per connection: the create request being served
  lists         \* per connection: the list request being served

vars ==
  << phase, exitCode, dbConnected, now, products, assets, nAssets,
     nCreates, n201, creates, lists >>

startupVars == << phase, exitCode, dbConnected >>

IdleCreate ==
  [ pc |-> "idle", id |-> 0, body |-> BaseBody, file |-> NoFile,
    reqfile |-> NoFile, upload |-> "none", saveCalled |-> FALSE,
    doc |-> NoDoc, resp |-> NoResp ]

IdleList == [ pc |-> "idle", found |-> << >>, resp |-> NoResp ]

Init ==
  /\ phase = "connecting"
  /\ exitCode = -1
  /\ dbConnected = FALSE
  /\ now = 0
  /\ products = << >>
  /\ assets = {}
  /\ nAssets = 0
  /\ nCreates = 0
  /\ n201 = 0
  /\ creates = [ s \in CreateSlots |-> IdleCreate ]
  /\ lists = [ l \in ListSlots |-> IdleList ]

(***************************************************************************)
(* Start-up: startServer awaits connectDB, then listens.                   *)
(***************************************************************************)
\* variant: connectDB logs the failure and returns
ConnectFailureLogged == [ phase |-> "connected", exitCode |-> -1 ]

\* what connectDB's catch block does to the process
ConnectFailure == [ phase |-> "exited", exitCode |-> 1 ]

ConnectDBOk ==
  /\ phase = "connecting"
  /\ dbConnected' = TRUE
  /\ phase' = "connected"
  /\ UNCHANGED << exitCode, now, products, assets, nAssets, nCreates, n201,
                  creates, lists >>

ConnectDBFail ==
  /\ phase = "connecting"
  /\ phase' = ConnectFailure.phase
  /\ exitCode' = ConnectFailure.exitCode
  /\ UNCHANGED << dbConnected, now, products, assets, nAssets, nCreates, n201,
                  creates, lists >>

Listen ==
  /\ phase = "connected"
  /\ phase' = "listening"
  /\ UNCHANGED << exitCode, dbConnected, now, products, assets, nAssets,
                  nCreates, n201, creates, lists >>

(***************************************************************************)
(* POST /api/products.                                                     *)
(***************************************************************************)
\* a create request reaches the upload middleware on a connection that is
\* not serving one
Arrives(s) ==
  /\ phase = "listening"
  /\ creates[s].pc \in {"idle", "done"}
  /\ \A t \in CreateSlots : t < s => creates[t].pc \notin {"idle", "done"}
  /\ nCreates < MaxCreates
  /\ nCreates' = nCreates + 1

\* the request as received: body b, file part f
Received(b, f) ==
  [ IdleCreate EXCEPT !.id = nCreates + 1, !.body = b, !.file = f ]

\* upload.single('image') when the request has no file part
MulterNoFile(s) ==
  /\ Arrives(s)
  /\ \E r \in Requests : LET b == r.body IN
       /\ r.file = NoFile
       /\ creates' = [ creates EXCEPT ![s] =
                         [ Received(b, NoFile) EXCEPT !.pc = "handler" ] ]
  /\ UNCHANGED << startupVars, now, products, assets, nAssets, n201, lists >>

\* the file filter refuses the part; the error goes to the error handler
MulterRejectType(s) ==
  /\ Arrives(s)
  /\ \E r \in Requests : LET b == r.body f == r.file IN
       /\ f # NoFile
       /\ ~ fileFilter(f)
       /\ creates' = [ creates EXCEPT ![s] =
                         [ Received(b, f) EXCEPT
                             !.pc = "done", !.upload = "rejected",
                             !.resp = ErrorHandler(FileFilterError) ] ]
  /\ UNCHANGED << startupVars, now, products, assets, nAssets, n201, lists >>

\* the part runs over the size limit; multer aborts with LIMIT_FILE_SIZE
MulterLimit(s) ==
  /\ Arrives(s)
  /\ \E r \in Requests : LET b == r.body f == r.file IN
       /\ f # NoFile
       /\ fileFilter(f)
       /\ ExceedsLimit(f)
       /\ creates' = [ creates EXCEPT ![s] =
                         [ Received(b, f) EXCEPT
                             !.pc = "done", !.upload = "aborted",
                             !.resp = ErrorHandler(LimitFileSizeError) ] ]
  /\ UNCHANGED << startupVars, now, products, assets, nAssets, n201, lists >>

\* variant: req.file is filled in while the upload is still pending
MulterUploadNotAwaited(s) ==
  /\ Arrives(s)
  /\ \E r \in Requests : LET b == r.body f == r.file IN
       /\ f # NoFile
       /\ fileFilter(f)
       /\ ~ ExceedsLimit(f)
       /\ LET pid == PublicId(nAssets + 1) IN
            creates' = [ creates EXCEPT ![s] =
                          [ Received(b, f) EXCEPT
                              !.pc = "handler", !.upload = "pending",
                              !.reqfile = [ present |-> TRUE, filename |-> pid,
                                            path |-> StorageUrl(pid) ] ] ]
  /\ nAssets' = nAssets + 1
  /\ UNCHANGED << startupVars, now, products, assets, n201, lists >>

\* the storage engine uploads the part and fills in req.file
MulterUploadOk(s) ==
  /\ Arrives(s)
  /\ \E r \in Requests : LET b == r.body f == r.file IN
       /\ f # NoFile
       /\ fileFilter(f)
       /\ ~ ExceedsLimit(f)
       /\ LET pid == PublicId(nAssets + 1) IN
            /\ assets' = assets \cup
                           { [ public_id |-> pid, uploadedBy |-> nCreates + 1 ] }
            /\ creates' = [ creates EXCEPT ![s] =
                              [ Received(b, f) EXCEPT
                                  !.pc = "handler", !.upload = "done",
                                  !.reqfile = [ present |-> TRUE, filename |-> pid,
                                                path |-> StorageUrl(pid) ] ] ]
  /\ nAssets' = nAssets + 1
  /\ UNCHANGED << startupVars, now, products, n201, lists >>

\* the media service fails the upload; the error goes to the error handler
MulterUploadFail(s) ==
  /\ Arrives(s)
  /\ \E r \in Requests : LET b == r.body f == r.file IN
       /\ f # NoFile
       /\ fileFilter(f)
       /\ ~ ExceedsLimit(f)
       /\ creates' = [ creates EXCEPT ![s] =
                         [ Received(b, f) EXCEPT
                             !.pc = "done", !.upload = "failed",
                             !.resp = ErrorHandler(UploadError) ] ]
  /\ UNCHANGED << startupVars, now, products, assets, nAssets, n201, lists >>

\* variant: the handler does not check req.file; save() then fails validation
HandlerNoFileUnchecked(s) ==
  /\ creates[s].pc = "handler"
  /\ creates[s].reqfile = NoFile
  /\ creates' = [ creates EXCEPT ![s].pc = "done", ![s].saveCalled = TRUE,
                                 ![s].resp = ServerError ]
  /\ UNCHANGED << startupVars, now, products, assets, nAssets, nCreates,
                  n201, lists >>

\* the route handler finds no req.file
HandlerNoFile(s) ==
  /\ creates[s].pc = "handler"
  /\ creates[s].reqfile = NoFile
  /\ creates' = [ creates EXCEPT ![s].pc = "done", ![s].resp = ImageRequired ]
  /\ UNCHANGED << startupVars, now, products, assets, nAssets, nCreates,
                  n201, lists >>

\* product.save() throws a validation error; the catch block answers
SaveInvalid(s) ==
  /\ creates[s].pc = "handler"
  /\ creates[s].reqfile # NoFile
  /\ ~ Validate(creates[s].body)
  /\ creates' = [ creates EXCEPT ![s].pc = "done", ![s].saveCalled = TRUE,
                                 ![s].resp = ServerError ]
  /\ UNCHANGED << startupVars, now, products, assets, nAssets, nCreates,
                  n201, lists >>

\* the clock readings save() may stamp the document with: the millisecond
\* of the previous insert or a later one
Stamps == IF products = << >> THEN { now + 1 } ELSE { now, now + 1 }

\* product.save() inserts the document
SaveOk(s) ==
  /\ creates[s].pc = "handler"
  /\ creates[s].reqfile # NoFile
  /\ Validate(creates[s].body)
  /\ \E t \in Stamps :
       /\ now' = t
       /\ LET doc == NewProduct(creates[s].id, creates[s].body, creates[s].reqfile, t) IN
            /\ products' = Append(products, doc)
            /\ creates' = [ creates EXCEPT ![s].pc = "saved", ![s].saveCalled = TRUE,
                                          ![s].doc = doc ]
  /\ UNCHANGED << startupVars, assets, nAssets, nCreates, n201, lists >>

\* the database fails the insert; the catch block answers
SaveFail(s) ==
  /\ creates[s].pc = "handler"
  /\ creates[s].reqfile # NoFile
  /\ Validate(creates[s].body)
  /\ creates' = [ creates EXCEPT ![s].pc = "done", ![s].saveCalled = TRUE,
                                 ![s].resp = ServerError ]
  /\ UNCHANGED << startupVars, now, products, assets, nAssets, nCreates,
                  n201, lists >>

\* save() has resolved; the handler answers with the created document
Respond201(s) ==
  /\ creates[s].pc = "saved"
  /\ creates' = [ creates EXCEPT ![s].pc = "done",
                                 ![s].resp = Created(creates[s].doc) ]
  /\ n201' = n201 + 1
  /\ UNCHANGED << startupVars, now, products, assets, nAssets, nCreates,
                  lists >>

(***************************************************************************)
(* GET /api/products.                                                      *)
(***************************************************************************)
\* a list request arrives on a connection that is not serving one, and the
\* database runs the sorted query
ListFind(l) ==
  /\ phase = "listening"
  /\ lists[l].pc \in {"idle", "done"}
  /\ \E found \in FindSorted(products) :
       lists' = [ lists EXCEPT ![l] =
                  [ IdleList EXCEPT !.pc = "map", !.found = found ] ]
  /\ UNCHANGED << startupVars, now, products, assets, nAssets, nCreates,
                  n201, creates >>

\* a list request arrives and the database fails the query; the catch block
\* answers
ListFindFail(l) ==
  /\ phase = "listening"
  /\ lists[l].pc \in {"idle", "done"}
  /\ lists' = [ lists EXCEPT ![l] =
                [ IdleList EXCEPT !.pc = "done", !.resp = ServerError ] ]
  /\ UNCHANGED << startupVars, now, products, assets, nAssets, nCreates,
                  n201, creates >>

\* find() has resolved; the handler maps the records and answers
ListRespond(l) ==
  /\ lists[l].pc = "map"
  /\ lists' = [ lists EXCEPT ![l].pc = "done", ![l].resp = Listed(lists[l].found) ]
  /\ UNCHANGED << startupVars, now, products, assets, nAssets, nCreates,
                  n201, creates >>

Next ==
  \/ ConnectDBOk
  \/ ConnectDBFail
  \/ Listen
  \/ \E s \in CreateSlots : MulterNoFile(s)
  \/ \E s \in CreateSlots : MulterRejectType(s)
  \/ \E s \in CreateSlots : MulterLimit(s)
  \/ \E s \in CreateSlots : MulterUploadOk(s)
  \/ \E s \in CreateSlots : MulterUploadFail(s)
  \/ \E s \in CreateSlots : HandlerNoFile(s)
  \/ \E s \in CreateSlots : SaveInvalid(s)
  \/ \E s \in CreateSlots : SaveOk(s)
  \/ \E s \in CreateSlots : SaveFail(s)
  \/ \E s \in CreateSlots : Respond201(s)
  \/ \E l \in ListSlots : ListFind(l)
  \/ \E l \in ListSlots : ListFindFail(l)
  \/ \E l \in ListSlots : ListRespond(l)

Spec == Init /\ [][Next]_vars

(***************************************************************************)
(* Vocabulary of the properties.                                           *)
(***************************************************************************)
\* positions of the stored products written by request id
ProductOf(id) == { i \in 1..Len(products) : products[i]._id = id }

Answered(c) == c.pc = "done"

HasFile(c) == c.pc # "idle" /\ c.file # NoFile

\* image/* and within the size limit
WellFormedImage(c) ==
  HasFile(c) /\ c.file.mimetype[1] = "image" /\ c.file.size <= 5 * 1024 * 1024

AutoDelivery == [fetch_format |-> "auto", quality |-> "auto"]

C2_NonImageIs400 ==
  \A s \in CreateSlots :
    LET c == creates[s] IN
      (Answered(c) /\ HasFile(c) /\ c.file.mimetype[1] # "image") =>
        /\ c.upload = "rejected"
        /\ ~ c.saveCalled
        /\ ProductOf(c.id) = {}
        /\ c.resp.status = 400

\* C3 as stated: every create request whose file part exceeds 5 MB is
\* answered 400 "File is too large", without save() and without a product.
C3_OversizeIs400 ==
  \A s \in CreateSlots :
    LET c == creates[s] IN
      (Answered(c) /\ HasFile(c) /\ c.file.size > 5 * 1024 * 1024) =>
        /\ c.resp = [ status |-> 400, message |-> "File is too large" ]
        /\ ~ c.saveCalled
        /\ ProductOf(c.id) = {}

\* C3 amended: every create request whose file part is image/* and exceeds
\* 5 MB is answered 400 "File is too large", without save() and without a
\* product.
C3_OversizeImageIs400 ==
  \A s \in CreateSlots :
    LET c == creates[s] IN
      (Answered(c) /\ HasFile(c) /\ c.file.mimetype[1] = "image"
         /\ c.file.size > 5 * 1024 * 1024) =>
        /\ c.resp = [ status |-> 400, message |-> "File is too large" ]
        /\ ~ c.saveCalled
        /\ ProductOf(c.id) = {}

C3_Witness ==
  \E s \in CreateSlots :
    /\ Answered(creates[s])
    /\ HasFile(creates[s])
    /\ creates[s].file.mimetype[1] = "image"
    /\ creates[s].file.size = 5 * 1024 * 1024 + 1
    /\ creates[s].resp.status = 400
    /\ creates[s].resp.message = "File is too large"

\* C4: a valid create request (valid fields, well-formed image) whose upload
\* and insert succeed is answered 201, exactly one product is stored for it,
\* and the returned image.cdn_url is the delivery URL of the returned
\* image.public_id, the one the list route derives for that record.
C4_ValidCreateIs201 ==
  \A s \in CreateSlots :
    LET c == creates[s] IN
      (Answered(c) /\ WellFormedImage(c) /\ Validate(c.body)) =>
        /\ (c.upload = "done" /\ ProductOf(c.id) # {}) <=> c.resp.status = 201
        /\ c.resp.status = 201 =>
             /\ Cardinality(ProductOf(c.id)) = 1
             /\ \A i \in ProductOf(c.id) : products[i] = c.resp.body
             /\ c.resp.body.image.cdn_url =
                  cloudinary_url(c.resp.body.image.public_id, AutoDelivery)
             /\ c.resp.body.image.cdn_url = Optimized(c.resp.body).image.cdn_url

C4_Witness ==
  \E s \in CreateSlots :
    /\ Answered(creates[s])
    /\ WellFormedImage(creates[s])
    /\ creates[s].file.size = 5 * 1024 * 1024
    /\ Validate(creates[s].body)
    /\ creates[s].resp.status = 201
    /\ Cardinality(ProductOf(creates[s].id)) = 1

\* what a successful list answer holds
ListAnswerOk ==
  \A l \in ListSlots :
    LET r == lists[l].resp IN
      r.status = 200 =>
        /\ Len(r.body) = Len(lists[l].found)
        /\ \A i \in 1..Len(r.body) :
             /\ r.body[i].image.cdn_url # << >>
             /\ r.body[i].image.cdn_url =
                  cloudinary_url(r.body[i].image.public_id, AutoDelivery)
             /\ r.body[i]._id = lists[l].found[i]._id
        /\ \A i \in 1..Len(r.body) : \A j \in 1..Len(r.body) :
             i < j => r.body[i].createdAt >= r.body[j].createdAt

\* no create request is between its insert and its 201 answer
NoCreateUnanswered == \A s \in CreateSlots : creates[s].pc # "saved"

\* what the query of a list request returns
ListFindStep ==
  \A l \in ListSlots :
    (lists[l].pc # "map" /\ lists'[l].pc = "map") =>
      /\ { lists'[l].found[i] : i \in 1..Len(lists'[l].found) } =
           { products[i] : i \in 1..Len(products) }
      /\ NoCreateUnanswered => Len(lists'[l].found) = n201

\* a step of a list request leaves the collection alone
ListReadOnly == lists' # lists => products' = products

C6_IsFeaturedCoercion ==
  \A s \in CreateSlots :
    LET c == creates[s] IN
      \A i \in ProductOf(c.id) :
        /\ products[i].isFeatured \in BOOLEAN
        /\ products[i].isFeatured =
             ("isFeatured" \in DOMAIN c.body /\ c.body.isFeatured = "true")

C6_Witness ==
  /\ \E s \in CreateSlots : \E i \in ProductOf(creates[s].id) :
       /\ "isFeatured" \in DOMAIN creates[s].body
       /\ creates[s].body.isFeatured = "true"
       /\ products[i].isFeatured = TRUE
  /\ \E s \in CreateSlots : \E i \in ProductOf(creates[s].id) :
       /\ "isFeatured" \in DOMAIN creates[s].body
       /\ creates[s].body.isFeatured \in {"True", "1", ""}
       /\ products[i].isFeatured = FALSE

\* C7: a create request with a well-formed image, uploaded successfully,
\* whose category is outside {jaggery, honey, spices, other} is answered
\* 500 "Server Error" after save() was called, stores no product, and
\* leaves its uploaded asset in the media service.
C7_BadCategoryIs500 ==
  \A s \in CreateSlots :
    LET c == creates[s] IN
      (Answered(c) /\ WellFormedImage(c) /\ c.upload = "done"
         /\ ~ ("category" \in DOMAIN c.body
               /\ c.body.category \in {"jaggery", "honey", "spices", "other"})) =>
        /\ c.saveCalled
        /\ c.resp = [ status |-> 500, message |-> "Server Error" ]
        /\ ProductOf(c.id) = {}
        /\ \E a \in assets : a.uploadedBy = c.id

C7_Witness ==
  \E s \in CreateSlots :
    /\ Answered(creates[s])
    /\ creates[s].upload = "done"
    /\ "category" \in DOMAIN creates[s].body
    /\ creates[s].body.category = "fruit"
    /\ creates[s].resp.status = 500
    /\ Len(products) = 1
    /\ Cardinality(assets) = 2

\* C8: within one create request save() is called only after that request's
\* upload has completed, and never when the upload was rejected, aborted
\* or failed, whatever the other connections are doing.
C8_UploadBeforeSave ==
  \A s \in CreateSlots :
    LET c == creates[s] IN
      /\ c.saveCalled =>
           /\ c.upload = "done"
           /\ \E a \in assets :
                /\ a.uploadedBy = c.id
                /\ c.pc = "saved" => a.public_id = c.doc.image.public_id
      /\ c.upload \in {"rejected", "aborted", "failed"} => ~ c.saveCalled

C8_Witness ==
  \E s \in CreateSlots : \E t \in CreateSlots \ {s} : \E l \in ListSlots :
    /\ creates[s].pc = "saved"
    /\ creates[t].pc = "handler"
    /\ creates[t].upload = "done"
    /\ creates[t].id < creates[s].id
    /\ lists[l].pc = "map"

\* C9: the server listens only once the initial database connection has
\* succeeded; if that connection fails the process has exited with status 1,
\* is not listening, and has handled no request.
C9_ListenAfterConnect ==
  /\ phase \in {"connected", "listening"} => dbConnected
  /\ phase = "exited" => exitCode = 1 /\ ~ dbConnected
  /\ nCreates > 0 => phase = "listening" /\ dbConnected
  /\ phase # "listening" =>
       /\ \A s \in CreateSlots : creates[s].pc = "idle"
       /\ \A l \in ListSlots : lists[l].pc = "idle"

C9_Witness == phase = "exited" /\ exitCode = 1 /\ nCreates = 0

\* every stored product refers to the asset its own request uploaded
ProductsHaveAssets ==
  \A i \in 1..Len(products) :
    \E a \in assets :
      a.public_id = products[i].image.public_id /\ a.uploadedBy = products[i]._id

\* a step appends to the collection or leaves it as it is
StoreOnlyGrows ==
  /\ Len(products') >= Len(products)
  /\ \A i \in 1..Len(products) : products'[i] = products[i]

\* C10: every stored product's image.public_id names an asset the media
\* service holds, uploaded by the request that stored the product; stored
\* products are never changed or removed.  The converse fails: C10_Witness
\* is a state where an asset is referenced by no product and every create
\* request has been answered.
C10_ProductsReferToAssets == []ProductsHaveAssets /\ [][StoreOnlyGrows]_vars

C10_Witness ==
  /\ Len(products) = 1
  /\ \A s \in CreateSlots : Answered(creates[s])
  /\ \E a \in assets :
       \A i \in 1..Len(products) : products[i].image.public_id # a.public_id

====
